---------------------------- MODULE Spec2Model ----------------------------
(***************************************************************************)
(* markdown-hub: the convert command (src/src/commandHandler.ts) and the   *)
(* supervision of the Python worker with its line-framed stdout protocol   *)
(* (src/src/pythonService.ts).                                             *)
(*                                                                         *)
(* Text is a sequence of one-character strings.  A stdout line stands for  *)
(* a base64 text; the codec is modelled over a small alphabet:             *)
(*   "P" "S" "F"  the first character of an encoded frame (progress,       *)
(*                successful result, failed result),                       *)
(*   "1"          a payload character (percentage, output file, error      *)
(*                text),                                                   *)
(*   " "          white space, which the base64 decoder and trim() drop,   *)
(*   "\n"         the line terminator.                                     *)
(***************************************************************************)
EXTENDS Integers, Sequences, FiniteSets, TLC

\* ------------------------------------------------------------------ bounds

\* The most characters a worker writes to its stdout in one job.
MaxOut == 5

\* ------------------------------------------------------------------- text

NL == "\n"
SP == " "
Tags == {"P", "S", "F"}
Digits == {"1", "2"}
\* The characters the worker of Spec writes to stdout.
Alphabet == Tags \cup {"1"} \cup {NL, SP}

\* All texts over cs of length 0..n.
RECURSIVE TextsUpTo(_, _)
TextsUpTo(cs, n) ==
    IF n = 0 THEN {<<>>}
    ELSE LET shorter == TextsUpTo(cs, n - 1)
         IN  shorter \cup {Append(t, c) : t \in {u \in shorter : Len(u) = n - 1}, c \in cs}

\* String.prototype.split('\n'): the segments between newlines, always at
\* least one, the last being the text after the final newline.
RECURSIVE Split(_)
Split(s) ==
    IF \A i \in 1..Len(s) : s[i] # NL THEN <<s>>
    ELSE LET k == CHOOSE i \in 1..Len(s) : s[i] = NL /\ \A j \in 1..(i - 1) : s[j] # NL
         IN  <<SubSeq(s, 1, k - 1)>> \o Split(SubSeq(s, k + 1, Len(s)))

\* String.prototype.trim(): leading and trailing white space removed.
RECURSIVE TrimLeft(_)
TrimLeft(s) == IF s # <<>> /\ Head(s) = SP THEN TrimLeft(Tail(s)) ELSE s

RECURSIVE TrimRight(_)
TrimRight(s) ==
    IF s # <<>> /\ s[Len(s)] = SP THEN TrimRight(SubSeq(s, 1, Len(s) - 1)) ELSE s

Trim(s) == TrimRight(TrimLeft(s))

\* Buffer.from(line, 'base64').toString('utf8'): the decoder skips white
\* space inside the encoded text and never throws.
RECURSIVE Base64Decode(_)
Base64Decode(s) ==
    IF s = <<>> THEN <<>>
    ELSE IF Head(s) = SP THEN Base64Decode(Tail(s))
    ELSE <<Head(s)>> \o Base64Decode(Tail(s))

AllDigits(s) == \A i \in 1..Len(s) : s[i] \in Digits

\* JSON.parse(decodedLine) as PythonOutput.  ok = FALSE is a SyntaxError.  A
\* text of payload characters only is JSON that parses but carries no type
\* tag (a bare number).  A tag followed by payload characters is a frame:
\* "P" a progress frame whose percentage is the payload (absent if empty),
\* "S" a result with success = true and the payload as outputFiles, "F" a
\* result with success = false and the payload as error (absent if empty).
JsonParse(text) ==
    IF text = <<>> THEN [ok |-> FALSE, type |-> "none", success |-> FALSE, payload |-> <<>>]
    ELSE IF AllDigits(text)
        THEN [ok |-> TRUE, type |-> "untyped", success |-> FALSE, payload |-> text]
    ELSE IF Head(text) \in Tags /\ AllDigits(Tail(text))
        THEN [ok |-> TRUE,
              type |-> IF Head(text) = "P" THEN "progress" ELSE "result",
              success |-> Head(text) = "S",
              payload |-> Tail(text)]
    ELSE [ok |-> FALSE, type |-> "none", success |-> FALSE, payload |-> <<>>]

\* ----------------------------------------------------------------- promise

Pending == [state |-> "pending", kind |-> "none", code |-> 0, text |-> <<>>]

\* resolve({success: true, outputFiles}) of the job's promise.
Fulfilled_NoFiles(outputFiles) ==
    [state |-> "fulfilled", kind |-> "success", code |-> 0, text |-> <<>>]

Fulfilled(outputFiles) ==
    [state |-> "fulfilled", kind |-> "success", code |-> 0, text |-> outputFiles]

\* reject(new Error(...)): kind names the message template, code and text
\* the values interpolated into it.
Rejected(kind, code, text) ==
    [state |-> "rejected", kind |-> kind, code |-> code, text |-> text]

\* A promise is settled by the first resolve or reject; later calls are
\* ignored.
Settle_LastWins(promise, outcome) == outcome

Settle(promise, outcome) == IF promise.state = "pending" THEN outcome ELSE promise

\* What the decoder hands over: a progressCallback call or a resolve/reject
\* call (made whether or not the promise is still pending).
ProgressCall(payload) == [call |-> "progress", kind |-> "none", code |-> 0, text |-> payload]
SettleCall(outcome) ==
    [call |-> outcome.state, kind |-> outcome.kind, code |-> outcome.code, text |-> outcome.text]

\* ------------------------------------------------------------------- state

VARIABLES
    pyProcess,      \* the worker: "none", "running", "hung", "failed", "closed"
    exitCode,       \* the code passed to the 'close' handler (0 before it)
    stdoutBuffer,   \* executePythonScript's stdoutBuffer
    emitted,        \* history: everything the 'data' handler was given
    cut,            \* history: some 'data' event ended in the middle of a line
    delivered,      \* history: the calls of progressCallback, resolve, reject
    promise,        \* the promise executePythonScript returned
    fs,             \* the paths that exist in the file system
    pc,             \* handleConvertCommand: "idle", "awaiting", "done"
    request,        \* history: the command's resource, conversion type and configuration
    spawned,        \* history: the argument vector of every spawn(pythonPath, args)
    messages,       \* history: the notifications shown to the user
    env,            \* process.env.BATCH_FILTER_TYPE, "unset" when deleted
    batch,          \* per command of the batch model: its position and locals
    jobs,           \* per job of the two-job model: its worker and its locals
    errLog,         \* history: what console.error was given from the worker's stderr
    folder          \* history: the outcomes of the jobs of the worker's folder run

jobVars == <<pyProcess, exitCode, stdoutBuffer, emitted, cut, delivered, promise>>
cmdVars == <<fs, pc, request, spawned, messages>>
multiVars == <<env, batch, jobs, errLog, folder>>
vars == <<jobVars, cmdVars, multiVars>>

\* The part of the job's state the handlers of executePythonScript update.
JobState(buffer, calls, p) == [stdoutBuffer |-> buffer, delivered |-> calls, promise |-> p]

NewJob == JobState(<<>>, <<>>, Pending)

Resolve(job, outcome) ==
    [job EXCEPT !.delivered = Append(@, SettleCall(outcome)),
                !.promise = Settle(@, outcome)]

Reject(job, outcome) == Resolve(job, outcome)

\* --------------------------------------------------------- stdout handler

\* A line handler that fails the job on a line that does not parse.
ProcessLine_RejectsBadLine(job, line) ==
    LET output == JsonParse(Base64Decode(line))
    IN  IF ~output.ok THEN Reject(job, Rejected("malformed", 0, line))
        ELSE IF output.type = "progress"
            THEN [job EXCEPT !.delivered = Append(@, ProgressCall(output.payload))]
        ELSE IF output.type = "result"
            THEN IF output.success
                 THEN Resolve(job, Fulfilled(output.payload))
                 ELSE Reject(job, IF output.payload # <<>>
                                  THEN Rejected("worker", 0, output.payload)
                                  ELSE Rejected("unknown", 0, <<>>))
        ELSE job

\* The body of lines.slice(0, -1).forEach: one complete line.
\* The body of the forEach once the line is decoded and parsed.
ProcessOutput(job, output) ==
        IF ~output.ok THEN job
        ELSE IF output.type = "progress"
            THEN [job EXCEPT !.delivered = Append(@, ProgressCall(output.payload))]
        ELSE IF output.type = "result"
            THEN IF output.success
                 THEN Resolve(job, Fulfilled(output.payload))
                 ELSE Reject(job, IF output.payload # <<>>
                                  THEN Rejected("worker", 0, output.payload)
                                  ELSE Rejected("unknown", 0, <<>>))
        ELSE job

ProcessLine(job, line) == ProcessOutput(job, JsonParse(Base64Decode(line)))

RECURSIVE ProcessLines(_, _)
ProcessLines(job, lines) ==
    IF lines = <<>> THEN job
    ELSE ProcessLines(ProcessLine(job, Head(lines)), Tail(lines))

\* A stdout handler that keeps no fragment between chunks.
OnStdoutData_DropsFragment(job, data) ==
    LET lines == Split(data)
        kept  == [job EXCEPT !.stdoutBuffer = <<>>]
    IN  ProcessLines(kept, SubSeq(lines, 1, Len(lines) - 1))

\* pyProcess.stdout.on('data', ...)
OnStdoutData(job, data) ==
    LET lines == Split(job.stdoutBuffer \o data)
        kept  == [job EXCEPT !.stdoutBuffer = lines[Len(lines)]]
    IN  ProcessLines(kept, SubSeq(lines, 1, Len(lines) - 1))

\* ---------------------------------------------------------- close handler

\* pyProcess.on('close', (code) => ...)
OnClose(job, code) ==
    LET rest == Trim(job.stdoutBuffer)
        finalOutput == JsonParse(Base64Decode(rest))
    IN  IF code # 0 /\ rest # <<>>
        THEN IF ~finalOutput.ok
             THEN Reject(job, Rejected("abnormal-output", code, rest))
             ELSE IF finalOutput.type = "result" /\ ~finalOutput.success
                 THEN Reject(job, IF finalOutput.payload # <<>>
                                  THEN Rejected("worker", 0, finalOutput.payload)
                                  ELSE Rejected("abnormal", code, <<>>))
             ELSE job
        ELSE IF code # 0
            THEN Reject(job, Rejected("abnormal", code, <<>>))
        ELSE job

\* pyProcess.on('error', (err) => ...)
OnError(job) == Reject(job, Rejected("launch", 0, <<>>))

\* ------------------------------------------------------------------- paths

\* A path is the sequence of its segments; an absolute path starts with "/".
IsAbsolute(p) == p # <<>> /\ Head(p) = "/"

Dirname(p) == SubSeq(p, 1, Len(p) - 1)

\* path.join: the segments of both, "." segments dropped.
RECURSIVE Normalize(_)
Normalize(p) ==
    IF p = <<>> THEN <<>>
    ELSE IF Head(p) = "." THEN Normalize(Tail(p))
    ELSE <<Head(p)>> \o Normalize(Tail(p))

Join(a, b) == Normalize(a \o b)

\* A mkdir that adds the directory alone.
MkdirRecursive_NotRecursive(files, dir) == files \cup {dir}

\* fs.mkdirSync(dir, {recursive: true}): dir and every missing ancestor.
MkdirRecursive(files, dir) == files \cup {SubSeq(dir, 1, n) : n \in 1..Len(dir)}

ExtensionPath == <<"/", "ext">>
DefaultDocxTemplate == Join(ExtensionPath, <<"backend", "converters", "templates", "template.docx">>)
DefaultPptxTemplate == Join(ExtensionPath, <<"backend", "converters", "templates", "template.pptx">>)
ScriptPath == Join(ExtensionPath, <<"backend", "cli.py">>)

\* ----------------------------------------------------- conversion options

ConversionTypes ==
    {"md-to-docx", "md-to-pdf", "md-to-html", "md-to-pptx", "office-to-md", "diagram-to-png"}

\* conversionOptions: `keys` are the properties the object has (isNull: the
\* value null); a string property is a text, "" being <<>>.
NullOptions ==
    [isNull |-> TRUE, keys |-> {},
     docxTemplatePath |-> <<>>, pptxTemplatePath |-> <<>>,
     projectName |-> <<>>, author |-> <<>>, email |-> <<>>, mobilephone |-> <<>>,
     promoteHeadings |-> FALSE, popplerPath |-> <<>>, tesseractCmd |-> <<>>,
     svgDpi |-> <<>>, svgConversionMethod |-> <<>>, svgOutputWidth |-> <<>>,
     svgFallbackEnabled |-> FALSE, pptxSvgMode |-> <<>>]

SharedKeys == {"projectName", "author", "email", "mobilephone", "promoteHeadings"}

\* A template path with no default substituted.
TemplatePath_NoDefault(configured, bundled) == configured

\* The template path a convert command hands on: the configured one, or the
\* bundled default when none is configured.
TemplatePath(configured, bundled) == IF configured = <<>> THEN bundled ELSE configured

\* Options built alike for every conversion type.
ConversionOptions_SameForAllTypes(conversionType, config) ==
    [NullOptions EXCEPT
        !.isNull = FALSE,
        !.keys = SharedKeys \cup {"popplerPath", "tesseractCmd"},
        !.projectName = config.projectName,
        !.author = config.author,
        !.email = config.email,
        !.mobilephone = config.mobilephone,
        !.promoteHeadings = config.promoteHeadings,
        !.popplerPath = config.popplerPath,
        !.tesseractCmd = config.tesseractCmd]

\* handleConvertCommand, the construction of conversionOptions.
ConversionOptions(conversionType, config) ==
    IF conversionType \in {"md-to-docx", "md-to-pdf", "md-to-pptx"}
    THEN LET shared == [NullOptions EXCEPT
                           !.isNull = FALSE,
                           !.keys = SharedKeys,
                           !.projectName = config.projectName,
                           !.author = config.author,
                           !.email = config.email,
                           !.mobilephone = config.mobilephone,
                           !.promoteHeadings = config.promoteHeadings]
         IN  IF conversionType \in {"md-to-docx", "md-to-pdf"}
             THEN IF config.useDocxTemplate
                  THEN [shared EXCEPT
                           !.keys = @ \cup {"docxTemplatePath"},
                           !.docxTemplatePath =
                               TemplatePath(config.docxTemplatePath, DefaultDocxTemplate)]
                  ELSE shared
             ELSE IF config.usePptxTemplate
                  THEN [shared EXCEPT
                           !.keys = @ \cup {"pptxTemplatePath"},
                           !.pptxTemplatePath =
                               TemplatePath(config.pptxTemplatePath, DefaultPptxTemplate)]
                  ELSE shared
    ELSE IF conversionType = "office-to-md"
        THEN [NullOptions EXCEPT
                 !.isNull = FALSE,
                 !.keys = {"popplerPath", "tesseractCmd"},
                 !.popplerPath = config.popplerPath,
                 !.tesseractCmd = config.tesseractCmd]
    ELSE NullOptions

\* A flag pushed whatever its value.
ValueFlag_AlwaysPushed(flag, value) == <<<<flag>>, value>>

\* if (conversionOptions.name) args.push(flag, conversionOptions.name)
ValueFlag(flag, value) == IF value # <<>> THEN <<<<flag>>, value>> ELSE <<>>

\* if (conversionOptions.name) args.push(flag)
PresenceFlag(flag, on) == IF on THEN <<<<flag>>>> ELSE <<>>

\* if (conversionOptions.name !== undefined) args.push(flag, name.toString())
DefinedFlag(flag, defined, value) == IF defined THEN <<<<flag>>, value>> ELSE <<>>

\* executePythonScript, the option flags appended to args.
OptionArgs(conversionOptions) ==
    IF conversionOptions.isNull THEN <<>>
    ELSE ValueFlag("--docx-template-path", conversionOptions.docxTemplatePath)
         \o ValueFlag("--pptx-template-path", conversionOptions.pptxTemplatePath)
         \o ValueFlag("--project-name", conversionOptions.projectName)
         \o ValueFlag("--author", conversionOptions.author)
         \o ValueFlag("--email", conversionOptions.email)
         \o ValueFlag("--mobilephone", conversionOptions.mobilephone)
         \o PresenceFlag("--promote-headings", conversionOptions.promoteHeadings)
         \o ValueFlag("--poppler-path", conversionOptions.popplerPath)
         \o ValueFlag("--tesseract-cmd", conversionOptions.tesseractCmd)
         \o DefinedFlag("--svg-dpi", "svgDpi" \in conversionOptions.keys,
                        conversionOptions.svgDpi)
         \o ValueFlag("--svg-conversion-method", conversionOptions.svgConversionMethod)
         \o DefinedFlag("--svg-output-width", "svgOutputWidth" \in conversionOptions.keys,
                        conversionOptions.svgOutputWidth)
         \o PresenceFlag("--svg-fallback-enabled",
                         "svgFallbackEnabled" \in conversionOptions.keys
                             /\ conversionOptions.svgFallbackEnabled)
         \o ValueFlag("--pptx-svg-mode", conversionOptions.pptxSvgMode)

\* An argument vector with the two paths exchanged.
WorkerArgs_PathsExchanged(sourcePath, conversionType, outputDir, conversionOptions) ==
    <<ScriptPath,
      <<"--conversion-type">>, <<conversionType>>,
      <<"--input-path">>, outputDir,
      <<"--output-dir">>, sourcePath>>
    \o OptionArgs(conversionOptions)

\* executePythonScript, the argument vector of the worker.  Every argument
\* is a text or a path, a flag being a text of one segment.
WorkerArgs(sourcePath, conversionType, outputDir, conversionOptions) ==
    <<ScriptPath,
      <<"--conversion-type">>, <<conversionType>>,
      <<"--input-path">>, sourcePath,
      <<"--output-dir">>, outputDir>>
    \o OptionArgs(conversionOptions)

\* handleConvertCommand, the output directory of a command.
OutputDir(sourcePath, config) ==
    IF IsAbsolute(config.outputDirectory)
    THEN config.outputDirectory
    ELSE Join(Dirname(sourcePath), config.outputDirectory)

\* ----------------------------------------------------------- notifications

\* vscode.window.showErrorMessage / showInformationMessage: kind names the
\* message template, code and text the values interpolated into it.
ErrorMessage(kind, code, text) == [level |-> "error", kind |-> kind, code |-> code, text |-> text]
InfoMessage(kind, text) == [level |-> "info", kind |-> kind, code |-> 0, text |-> text]

\* ------------------------------------------------------------ the requests

NoUri == <<>>
SourceFile == <<"/", "w", "a.md">>
MissingFile == <<"/", "w", "gone.md">>
CustomDocxTemplate == <<"/", "t", "my.docx">>
MissingDocxTemplate == <<"/", "t", "gone.docx">>
CustomPptxTemplate == <<"/", "t", "my.pptx">>
MissingPptxTemplate == <<"/", "t", "gone.pptx">>
RelativeOutputDirectory == <<".", "converted">>
AbsoluteOutputDirectory == <<"/", "out">>

\* The files present before any command runs.
BaseFiles ==
    {<<"/">>, <<"/", "w">>, SourceFile, <<"/", "t">>, CustomDocxTemplate, CustomPptxTemplate}
        \cup MkdirRecursive({}, DefaultDocxTemplate)
        \cup MkdirRecursive({}, DefaultPptxTemplate)
        \cup MkdirRecursive({}, ScriptPath)

\* The settings of the markdown-hub section as config.get(name, default)
\* returns them.
DefaultConfig ==
    [outputDirectory |-> RelativeOutputDirectory,
     useDocxTemplate |-> TRUE, docxTemplatePath |-> <<>>,
     usePptxTemplate |-> TRUE, pptxTemplatePath |-> <<>>,
     projectName |-> <<>>, author |-> <<>>, email |-> <<>>, mobilephone |-> <<>>,
     promoteHeadings |-> TRUE, popplerPath |-> <<>>, tesseractCmd |-> <<>>,
     svgConversionMethod |-> <<"auto">>]

\* The settings a user can have made that bear on templates and the output
\* directory.
TemplateConfigs ==
    {[DefaultConfig EXCEPT !.outputDirectory = o,
                           !.useDocxTemplate = ud, !.docxTemplatePath = dp,
                           !.usePptxTemplate = up, !.pptxTemplatePath = pp] :
        o \in {RelativeOutputDirectory, AbsoluteOutputDirectory},
        ud \in BOOLEAN, dp \in {<<>>, CustomDocxTemplate, MissingDocxTemplate},
        up \in BOOLEAN, pp \in {<<>>, CustomPptxTemplate, MissingPptxTemplate}}

Uris == {NoUri, SourceFile, MissingFile}

NestedOutputDirectory == <<".", "out", "md">>

\* A value of a text setting: left empty, or set.
TextSettings(value) == {<<>>, <<value>>}

\* The settings a user can have made that become options of the worker, over
\* the default template settings.
OptionConfigs ==
    {[DefaultConfig EXCEPT !.outputDirectory = o,
                           !.projectName = pn, !.author = au, !.email = em,
                           !.mobilephone = mo, !.promoteHeadings = ph,
                           !.popplerPath = po, !.tesseractCmd = te,
                           !.svgConversionMethod = me] :
        o \in {RelativeOutputDirectory, NestedOutputDirectory},
        pn \in TextSettings("proj"), au \in TextSettings("me"),
        em \in TextSettings("me@x"), mo \in TextSettings("555"),
        ph \in BOOLEAN,
        po \in TextSettings("poppler"), te \in TextSettings("tesseract"),
        me \in {<<"auto">>, <<"inkscape">>}}

NoRequest == [resourceUri |-> NoUri, conversionType |-> "none", config |-> DefaultConfig]

\* ----------------------------------------------------------------- actions

Job == JobState(stdoutBuffer, delivered, promise)

SetJob(job) ==
    /\ stdoutBuffer' = job.stdoutBuffer
    /\ delivered' = job.delivered
    /\ promise' = job.promise

ExitCodes == {0, 1}
\* The code 'close' carries after a failed spawn (a negative errno).
SpawnFailedCode == -2

InitJob ==
    /\ pyProcess = "none"
    /\ exitCode = 0
    /\ stdoutBuffer = <<>>
    /\ emitted = <<>>
    /\ cut = FALSE
    /\ delivered = <<>>
    /\ promise = Pending

InitCommand ==
    /\ pc = "idle"
    /\ request = NoRequest
    /\ spawned = <<>>
    /\ messages = <<>>

\* The number of commands issued in the batch model.
NCommands == 2

Commands == 1..NCommands

\* The fileType a batch command is registered with (extension.ts).
FileTypes == {"pdf", "docx", "pptx", "excel", "all"}

\* A command not yet issued.  filter is the fileType the command was issued
\* with ("unset" for a plain office-to-md command), originalEnv the local
\* of handleBatchConvert, workerEnv the BATCH_FILTER_TYPE its worker
\* inherited at the spawn.
IdleCommand ==
    [pc |-> "idle", filter |-> "unset", originalEnv |-> "unset", workerEnv |-> "unset"]

\* The two jobs of the two-job model.
JobIds == {"A", "B"}

\* A job not yet started: no worker, and the locals of executePythonScript
\* as they are once it is called.
IdleJob == [process |-> "none", exitCode |-> 0, emitted |-> <<>>, job |-> NewJob]

InitBatch ==
    /\ env = "unset"
    /\ batch = [c \in Commands |-> IdleCommand]
    /\ jobs = [j \in JobIds |-> IdleJob]
    /\ errLog = <<>>
    /\ folder = <<>>

Init ==
    /\ InitJob
    /\ InitCommand
    /\ InitBatch
    /\ fs = BaseFiles

\* const pyProcess = spawn(pythonPath, args), with the handlers registered.
Spawn(args) ==
    /\ pyProcess' = "running"
    /\ spawned' = Append(spawned, args)
    /\ SetJob(NewJob)
    /\ UNCHANGED <<exitCode, emitted, cut>>

\* handleConvertCommand up to `await executePythonScript(...)`: everything
\* before the await runs in one turn of the event loop, the spawn included.
HandleConvertCommand(resourceUri, conversionType, config) ==
    /\ pc = "idle"
    /\ request' = [resourceUri |-> resourceUri, conversionType |-> conversionType,
                   config |-> config]
    /\ IF resourceUri = NoUri
       THEN /\ messages' = Append(messages, ErrorMessage("no-selection", 0, <<>>))
            /\ pc' = "done"
            /\ UNCHANGED <<fs, spawned, jobVars, multiVars>>
       ELSE LET sourcePath == resourceUri
                outputDir == OutputDir(sourcePath, config)
                conversionOptions == ConversionOptions(conversionType, config)
            IN  /\ fs' = IF outputDir \in fs THEN fs ELSE MkdirRecursive(fs, outputDir)
                /\ Spawn(WorkerArgs(sourcePath, conversionType, outputDir, conversionOptions))
                /\ pc' = "awaiting"
                /\ UNCHANGED <<messages, multiVars>>

\* handleConvertCommand after the await: the result is shown.
ShowResult ==
    /\ pc = "awaiting"
    /\ promise.state # "pending"
    /\ pc' = "done"
    /\ messages' =
         IF promise.state = "fulfilled"
         THEN IF Len(promise.text) > 0
              THEN Append(messages,
                          InfoMessage(IF Len(promise.text) = 1 THEN "converted-one"
                                      ELSE "converted-many", promise.text))
              ELSE messages
         ELSE Append(messages, ErrorMessage(promise.kind, promise.code, promise.text))
    /\ UNCHANGED <<fs, request, spawned, jobVars, multiVars>>

\* The worker writes `data` and the host's 'data' handler runs on it.
StdoutData(data) ==
    /\ pyProcess = "running"
    /\ data # <<>>
    /\ emitted' = emitted \o data
    /\ cut' = (cut \/ data[Len(data)] # NL)
    /\ SetJob(OnStdoutData(Job, data))
    /\ UNCHANGED <<pyProcess, exitCode, cmdVars, multiVars>>

\* The worker exits and its streams end: 'close' with the exit code.
Close(code) ==
    /\ pyProcess = "running"
    /\ pyProcess' = "closed"
    /\ exitCode' = code
    /\ SetJob(OnClose(Job, code))
    /\ UNCHANGED <<emitted, cut, cmdVars, multiVars>>

\* The executable cannot be started: 'error'.
SpawnError ==
    /\ pyProcess = "running"
    /\ emitted = <<>>
    /\ pyProcess' = "failed"
    /\ SetJob(OnError(Job))
    /\ UNCHANGED <<exitCode, emitted, cut, cmdVars, multiVars>>

\* 'close' after a failed spawn.
CloseAfterError ==
    /\ pyProcess = "failed"
    /\ pyProcess' = "closed"
    /\ exitCode' = SpawnFailedCode
    /\ SetJob(OnClose(Job, SpawnFailedCode))
    /\ UNCHANGED <<emitted, cut, cmdVars, multiVars>>

\* The worker blocks for good: it writes nothing more and never exits.
WorkerHangs ==
    /\ pyProcess = "running"
    /\ pyProcess' = "hung"
    /\ UNCHANGED <<exitCode, stdoutBuffer, emitted, cut, delivered, promise, cmdVars, multiVars>>

\* What the worker and the event loop do once a job is started.
JobNext ==
    \/ \E data \in TextsUpTo(Alphabet, MaxOut - Len(emitted)) : StdoutData(data)
    \/ \E code \in ExitCodes : Close(code)
    \/ SpawnError
    \/ CloseAfterError
    \/ WorkerHangs
    \/ ShowResult

\* One convert command under the default settings, and its job with every
\* worker output.
Next ==
    \/ \E uri \in {NoUri, SourceFile} : HandleConvertCommand(uri, "md-to-docx", DefaultConfig)
    \/ JobNext

Spec == Init /\ [][Next]_vars

\* Every convert command under every template setting, up to the spawn.
InitDispatch ==
    /\ InitJob
    /\ InitCommand
    /\ InitBatch
    /\ fs \in {BaseFiles, MkdirRecursive(BaseFiles, AbsoluteOutputDirectory),
               MkdirRecursive(BaseFiles, Join(Dirname(SourceFile), RelativeOutputDirectory))}

DispatchNext ==
    \E uri \in Uris, conversionType \in ConversionTypes, config \in TemplateConfigs :
        HandleConvertCommand(uri, conversionType, config)

SpecDispatch == InitDispatch /\ [][DispatchNext]_vars

\* Every convert command of a selected file under every option setting, up to
\* the spawn.
OptionsNext ==
    \E conversionType \in ConversionTypes, config \in OptionConfigs :
        HandleConvertCommand(SourceFile, conversionType, config)

SpecOptions == Init /\ [][OptionsNext]_vars

\* ------------------------------------------------------ reading a history

\* The newline-terminated lines of a text.
CompleteLines(text) == SubSeq(Split(text), 1, Len(Split(text)) - 1)

\* The text after the last newline.
TrailingFragment(text) == Split(text)[Len(Split(text))]

\* A line that decodes to a protocol frame.
IsFrameLine(line) ==
    JsonParse(Base64Decode(line)).ok
        /\ JsonParse(Base64Decode(line)).type \in {"progress", "result"}

IsResultLine(line) ==
    JsonParse(Base64Decode(line)).ok /\ JsonParse(Base64Decode(line)).type = "result"

\* The stdout handler decoded a result frame.
ResultDecoded == \E i \in 1..Len(CompleteLines(emitted)) : IsResultLine(CompleteLines(emitted)[i])

\* The worker is started and 'close' has not run: every call in `delivered`
\* was made by the stdout handler.
Streaming == pyProcess \in {"running", "hung"}

HasFlag(args, flag) == \E i \in 1..Len(args) : args[i] = <<flag>>

\* The argument that follows `flag`.
FlagValue(args, flag) == args[1 + CHOOSE i \in 1..Len(args) : args[i] = <<flag>>]

\* ------------------------------------------------------------------ claims

\* C1: a worker that closes with exit code 0 without a decoded result frame
\* is reported to the caller as a failed job: the promise is rejected, not
\* fulfilled and not left pending.
C1_ZeroExitWithoutResultIsFailure ==
    (pyProcess = "closed" /\ exitCode = 0 /\ ~ResultDecoded) => promise.state = "rejected"

\* C2: a job is reported successful only if the worker emitted a successful
\* result frame and exited with code 0.
C2_SuccessOnlyWithZeroExit ==
    (pyProcess = "closed" /\ promise.state = "fulfilled") => exitCode = 0

\* C3: however the worker's output is cut into chunks, the stdout handler
\* makes the calls (progress callbacks, resolve, reject) it makes when the
\* whole output arrives as one chunk, and its buffer holds the unterminated
\* trailing fragment of the output.
C3_ChunkingDoesNotChangeFrames ==
    Streaming =>
        /\ delivered = OnStdoutData(NewJob, emitted).delivered
        /\ promise = OnStdoutData(NewJob, emitted).promise
        /\ stdoutBuffer = TrailingFragment(emitted)

\* C3 witness: a chunk ended in the middle of a line, frames were delivered
\* and a fragment is waiting for the next chunk.
C3_Witness ==
    /\ pyProcess = "running"
    /\ cut
    /\ Len(delivered) >= 2
    /\ stdoutBuffer # <<>>

\* C4: a complete line that does not decode to a frame is skipped: the calls
\* made and the promise are those of the same output with every such line
\* removed.
C4_BadLinesAreSkipped ==
    Streaming =>
        LET frames == ProcessLines(NewJob, SelectSeq(CompleteLines(emitted), IsFrameLine))
        IN  /\ delivered = frames.delivered
            /\ promise = frames.promise

\* C4 witness: a line that is no frame came before a frame that was
\* delivered.
C4_Witness ==
    /\ pyProcess = "running"
    /\ promise.state = "pending"
    /\ Len(CompleteLines(emitted)) >= 2
    /\ ~IsFrameLine(CompleteLines(emitted)[1])
    /\ IsFrameLine(CompleteLines(emitted)[2])
    /\ delivered # <<>>

\* C5: once a result frame has been decoded (resolve or reject was called),
\* the progress callback is not called again for that job.
C5_NoProgressAfterResult ==
    \A i, j \in 1..Len(delivered) :
        (i < j /\ delivered[i].call # "progress") => delivered[j].call # "progress"

\* C6: when the worker exits with a non-zero code and no result frame was
\* decoded, the job fails: with the worker's error if the trailing output
\* holds a failure result, otherwise with the abnormal-exit error that names
\* the exit code and holds the unconsumed trailing output.
C6_NonZeroExitWithoutResultFails ==
    (pyProcess = "closed" /\ exitCode > 0 /\ ~ResultDecoded) =>
        LET rest == Trim(stdoutBuffer)
            final == JsonParse(Base64Decode(rest))
        IN  /\ promise.state = "rejected"
            /\ IF final.ok /\ final.type = "result" /\ ~final.success
               THEN promise.kind \in {"worker", "abnormal"}
               ELSE /\ promise.kind \in {"abnormal", "abnormal-output"}
                    /\ promise.code = exitCode
                    /\ rest # <<>> => promise.text = rest

\* C7: a job whose worker hangs does not stay unsettled with nothing left to
\* happen: while it is pending, a step (the timeout that terminates the
\* worker and fails the job) is still to come.
C7_HungJobIsTimedOut ==
    (pyProcess = "hung" /\ promise.state = "pending") => ENABLED Next

\* C8: a convert command whose source path does not exist shows an error and
\* spawns no worker.
C8_MissingSourceSpawnsNoWorker ==
    (pc # "idle" /\ request.resourceUri \notin fs) =>
        /\ spawned = <<>>
        /\ \E i \in 1..Len(messages) : messages[i].level = "error"

\* The command asks for a template at a configured path that does not exist.
TemplateMissing ==
    \/ /\ request.conversionType \in {"md-to-docx", "md-to-pdf"}
       /\ request.config.useDocxTemplate
       /\ request.config.docxTemplatePath # <<>>
       /\ request.config.docxTemplatePath \notin fs
    \/ /\ request.conversionType = "md-to-pptx"
       /\ request.config.usePptxTemplate
       /\ request.config.pptxTemplatePath # <<>>
       /\ request.config.pptxTemplatePath \notin fs

\* C9: a command whose enabled template has a configured path that does not
\* exist fails with a TemplateNotFound error and spawns no worker.
C9_MissingTemplateSpawnsNoWorker ==
    (pc # "idle" /\ request.resourceUri = SourceFile /\ TemplateMissing) =>
        /\ spawned = <<>>
        /\ \E i \in 1..Len(messages) : messages[i].kind = "TemplateNotFound"

\* The template flag of a spawned worker: absent when templating is off, the
\* bundled default when no path is configured, else the configured path.
TemplateFlagResolved(args, flag, use, configured, bundled) ==
    /\ ~use => ~HasFlag(args, flag)
    /\ (use /\ configured = <<>>) => (HasFlag(args, flag) /\ FlagValue(args, flag) = bundled)
    /\ (use /\ configured # <<>>) => (HasFlag(args, flag) /\ FlagValue(args, flag) = configured)

\* C10: for md-to-docx and md-to-pdf the worker's --docx-template-path, and
\* for md-to-pptx its --pptx-template-path, is resolved from the settings:
\* no flag when templating is disabled, the bundled default when enabled
\* without a path, the configured path when enabled with one.
C10_TemplatePathResolution ==
    pc = "awaiting" =>
        /\ request.conversionType \in {"md-to-docx", "md-to-pdf"} =>
               TemplateFlagResolved(spawned[1], "--docx-template-path",
                                    request.config.useDocxTemplate,
                                    request.config.docxTemplatePath, DefaultDocxTemplate)
        /\ request.conversionType = "md-to-pptx" =>
               TemplateFlagResolved(spawned[1], "--pptx-template-path",
                                    request.config.usePptxTemplate,
                                    request.config.pptxTemplatePath, DefaultPptxTemplate)

\* C10 witness: an md-to-pptx command with templating enabled and no path
\* configured has spawned its worker with the bundled template.
C10_Witness ==
    /\ pc = "awaiting"
    /\ request.conversionType = "md-to-pptx"
    /\ request.config.usePptxTemplate
    /\ request.config.pptxTemplatePath = <<>>
    /\ HasFlag(spawned[1], "--pptx-template-path")

\* The flags of the worker that take a value, each with the setting it is
\* filled from.
SettingOfFlag(config, flag) ==
    CASE flag = "--project-name" -> config.projectName
      [] flag = "--author" -> config.author
      [] flag = "--email" -> config.email
      [] flag = "--mobilephone" -> config.mobilephone
      [] flag = "--poppler-path" -> config.popplerPath
      [] flag = "--tesseract-cmd" -> config.tesseractCmd

SettingFlags ==
    {"--project-name", "--author", "--email", "--mobilephone", "--poppler-path",
     "--tesseract-cmd"}

ValueFlags ==
    SettingFlags \cup {"--docx-template-path", "--pptx-template-path", "--svg-dpi",
                       "--svg-conversion-method", "--svg-output-width", "--pptx-svg-mode"}

MarkdownTypes == {"md-to-docx", "md-to-pdf", "md-to-pptx"}

\* C11: in the worker's argument vector a flag appears only when its option
\* is set: no value-taking flag is followed by an empty value or by nothing,
\* a flag filled from a setting is absent when the setting is empty, and
\* --promote-headings is present exactly when the option is true (it is an
\* option of the Markdown conversions); --svg-fallback-enabled, an option no
\* command sets, is absent.
C11_FlagsOnlyForSetOptions ==
    pc = "awaiting" =>
        LET args == spawned[1]
        IN  /\ \A i \in 1..Len(args) : \A flag \in ValueFlags :
                   args[i] = <<flag>> => (i < Len(args) /\ args[i + 1] # <<>>)
            /\ \A flag \in SettingFlags :
                   HasFlag(args, flag) =>
                       /\ SettingOfFlag(request.config, flag) # <<>>
                       /\ FlagValue(args, flag) = SettingOfFlag(request.config, flag)
            /\ HasFlag(args, "--promote-headings") <=>
                   (request.conversionType \in MarkdownTypes /\ request.config.promoteHeadings)
            /\ ~HasFlag(args, "--svg-fallback-enabled")

\* C11 witness: a Markdown conversion with the author set and the project
\* name empty has spawned a worker with --author and without --project-name.
C11_Witness ==
    /\ pc = "awaiting"
    /\ request.conversionType = "md-to-docx"
    /\ request.config.projectName = <<>>
    /\ request.config.author # <<>>
    /\ ~request.config.promoteHeadings
    /\ HasFlag(spawned[1], "--author")
    /\ ~HasFlag(spawned[1], "--project-name")

\* C12: a dispatched convert command (one with a resource) has launched
\* exactly one worker, whose arguments name the command's conversion type,
\* its source path and its output directory.
C12_OneWorkerWithFixedArguments ==
    (pc # "idle" /\ request.resourceUri # NoUri) =>
        /\ Len(spawned) = 1
        /\ spawned[1][2] = <<"--conversion-type">>
        /\ spawned[1][3] = <<request.conversionType>>
        /\ spawned[1][4] = <<"--input-path">>
        /\ spawned[1][5] = request.resourceUri
        /\ spawned[1][6] = <<"--output-dir">>
        /\ spawned[1][7] = IF request.config.outputDirectory = AbsoluteOutputDirectory
                           THEN AbsoluteOutputDirectory
                           ELSE <<"/", "w", "converted">>

\* C12 witness: an office-to-md command with an absolute output directory
\* has spawned its worker.
C12_Witness ==
    /\ pc = "awaiting"
    /\ request.resourceUri = SourceFile
    /\ request.conversionType = "office-to-md"
    /\ request.config.outputDirectory = AbsoluteOutputDirectory
    /\ Len(spawned) = 1

\* C13: the worker gets only the option flags of its conversion type: the
\* docx template for md-to-docx and md-to-pdf, the pptx template for
\* md-to-pptx, the project fields and --promote-headings for the three
\* Markdown conversions, poppler and tesseract for office-to-md.
C13_OnlyFlagsOfTheConversionType ==
    pc = "awaiting" =>
        LET args == spawned[1]
            type == request.conversionType
        IN  /\ HasFlag(args, "--docx-template-path") => type \in {"md-to-docx", "md-to-pdf"}
            /\ HasFlag(args, "--pptx-template-path") => type = "md-to-pptx"
            /\ \A flag \in {"--project-name", "--author", "--email", "--mobilephone",
                            "--promote-headings"} :
                   HasFlag(args, flag) => type \in MarkdownTypes
            /\ \A flag \in {"--poppler-path", "--tesseract-cmd"} :
                   HasFlag(args, flag) => type = "office-to-md"

\* C13 witness: an office-to-md command with every setting filled has
\* spawned a worker with --poppler-path and without --project-name.
C13_Witness ==
    /\ pc = "awaiting"
    /\ request.conversionType = "office-to-md"
    /\ request.config.projectName # <<>>
    /\ request.config.popplerPath # <<>>
    /\ request.config.promoteHeadings
    /\ HasFlag(spawned[1], "--poppler-path")
    /\ ~HasFlag(spawned[1], "--project-name")

\* C14: a diagram-to-png command under a configured conversion method other
\* than auto hands that method to its worker.
C14_ConfiguredMethodReachesWorker ==
    (pc = "awaiting" /\ request.conversionType = "diagram-to-png"
        /\ request.config.svgConversionMethod # <<"auto">>) =>
        /\ HasFlag(spawned[1], "--svg-conversion-method")
        /\ FlagValue(spawned[1], "--svg-conversion-method") = request.config.svgConversionMethod

\* C17: when a worker is spawned, the directory named by its --output-dir
\* exists, with every directory above it.
C17_OutputDirExistsAtSpawn ==
    spawned # <<>> =>
        \A n \in 1..Len(spawned[1][7]) : SubSeq(spawned[1][7], 1, n) \in fs

\* C17 witness: a command with a nested output directory that did not exist
\* has spawned its worker.
C17_Witness ==
    /\ pc = "awaiting"
    /\ request.config.outputDirectory = NestedOutputDirectory
    /\ spawned[1][7] = <<"/", "w", "out", "md">>
    /\ spawned[1][7] \notin BaseFiles

\* ------------------------------------------------------- batch commands

\* handleConvertCommand(uri, 'office-to-md', context) up to its await, as one
\* of several commands: the output directory is made and the worker is
\* spawned, inheriting process.env as it is then.  The protocol of the job
\* that follows is left to Spec.
DispatchOfficeToMd(uri) ==
    LET outputDir == OutputDir(uri, DefaultConfig)
    IN  /\ fs' = IF outputDir \in fs THEN fs ELSE MkdirRecursive(fs, outputDir)
        /\ spawned' = Append(spawned,
                             WorkerArgs(uri, "office-to-md", outputDir,
                                        ConversionOptions("office-to-md", DefaultConfig)))
        /\ UNCHANGED <<messages, pc, request, jobVars>>

\* A handleBatchConvert that sets BATCH_FILTER_TYPE before it looks at uri.
HandleBatchConvert_SetsFilterFirst(c, uri, fileType) ==
    /\ batch[c].pc = "idle"
    /\ env' = fileType
    /\ IF uri = NoUri
       THEN /\ messages' = Append(messages, ErrorMessage("no-directory", 0, <<>>))
            /\ batch' = [batch EXCEPT ![c].pc = "refused", ![c].filter = fileType]
            /\ UNCHANGED <<jobs, errLog, folder, fs, spawned, pc, request, jobVars>>
       ELSE /\ batch' = [batch EXCEPT ![c] = [pc |-> "finally", filter |-> fileType,
                                              originalEnv |-> env, workerEnv |-> fileType]]
            /\ DispatchOfficeToMd(uri)
            /\ UNCHANGED <<jobs, errLog, folder>>

\* handleBatchConvert up to its await: BATCH_FILTER_TYPE is saved and set,
\* and handleConvertCommand runs up to its own await, the spawn included.
HandleBatchConvert(c, uri, fileType) ==
    /\ batch[c].pc = "idle"
    /\ IF uri = NoUri
       THEN /\ messages' = Append(messages, ErrorMessage("no-directory", 0, <<>>))
            /\ batch' = [batch EXCEPT ![c].pc = "refused", ![c].filter = fileType]
            /\ UNCHANGED <<env, jobs, errLog, folder, fs, spawned, pc, request, jobVars>>
       ELSE /\ env' = fileType
            /\ batch' = [batch EXCEPT ![c] = [pc |-> "finally", filter |-> fileType,
                                              originalEnv |-> env, workerEnv |-> fileType]]
            /\ DispatchOfficeToMd(uri)
            /\ UNCHANGED <<jobs, errLog, folder>>

\* handleBatchConvert after its await, the finally block: the saved value is
\* put back, or the variable deleted.
BatchFinally(c) ==
    /\ batch[c].pc = "finally"
    /\ env' = batch[c].originalEnv
    /\ batch' = [batch EXCEPT ![c].pc = "done"]
    /\ UNCHANGED <<jobs, errLog, folder, cmdVars, jobVars>>

\* The command markdown-hub.officeToMd: handleConvertCommand on its own.
OfficeToMdCommand(c, uri) ==
    /\ batch[c].pc = "idle"
    /\ IF uri = NoUri
       THEN /\ messages' = Append(messages, ErrorMessage("no-selection", 0, <<>>))
            /\ batch' = [batch EXCEPT ![c].pc = "refused"]
            /\ UNCHANGED <<env, jobs, errLog, folder, fs, spawned, pc, request, jobVars>>
       ELSE /\ batch' = [batch EXCEPT ![c] = [pc |-> "done", filter |-> "unset",
                                              originalEnv |-> "unset", workerEnv |-> env]]
            /\ DispatchOfficeToMd(uri)
            /\ UNCHANGED <<env, jobs, errLog, folder>>

\* Commands issued in any order, each running from await to await.
BatchNext ==
    \/ \E c \in Commands, uri \in {NoUri, SourceFile}, fileType \in FileTypes :
           HandleBatchConvert(c, uri, fileType)
    \/ \E c \in Commands : BatchFinally(c)
    \/ \E c \in Commands, uri \in {NoUri, SourceFile} : OfficeToMdCommand(c, uri)

SpecBatch == Init /\ [][BatchNext]_vars

\* C15: the BATCH_FILTER_TYPE a spawned worker inherits is the filter of the
\* command that spawned it: the fileType of a batch command, none for a
\* plain office-to-md command.
C15_WorkerSeesOwnFilter ==
    \A c \in Commands :
        batch[c].pc \in {"finally", "done"} => batch[c].workerEnv = batch[c].filter

\* ------------------------------------------------------ two concurrent jobs

\* The longest output of one worker in the two-job model.
MaxJobOut == 3

\* The characters the workers of the two-job model write.
JobAlphabet == {"P", "F", NL}

\* A 'data' handler that is handed the output of every running worker.
JobAfterData_Broadcast(js, j, data) ==
    [k \in DOMAIN js |->
        IF js[k].process = "running"
        THEN [js[k] EXCEPT !.job = OnStdoutData(@, data),
                           !.emitted = IF k = j THEN @ \o data ELSE @]
        ELSE js[k]]

\* The 'data' handler registered on job j's own pyProcess.stdout runs on
\* job j's own stdoutBuffer, progressCallback, resolve and reject: all are
\* locals of job j's call of executePythonScript.
JobAfterData(js, j, data) ==
    [js EXCEPT ![j].job = OnStdoutData(@, data), ![j].emitted = @ \o data]

\* executePythonScript is called for job j: its worker is spawned.
StartJob(j) ==
    /\ jobs[j].process = "none"
    /\ jobs' = [jobs EXCEPT ![j].process = "running"]
    /\ spawned' = Append(spawned,
                         WorkerArgs(SourceFile, "md-to-docx", OutputDir(SourceFile, DefaultConfig),
                                    ConversionOptions("md-to-docx", DefaultConfig)))
    /\ UNCHANGED <<env, batch, errLog, folder, fs, pc, request, messages, jobVars>>

\* Job j's worker writes `data`.
JobStdoutData(j, data) ==
    /\ jobs[j].process = "running"
    /\ data # <<>>
    /\ jobs' = JobAfterData(jobs, j, data)
    /\ UNCHANGED <<env, batch, errLog, folder, cmdVars, jobVars>>

\* Job j's worker exits.
JobClose(j, code) ==
    /\ jobs[j].process = "running"
    /\ jobs' = [jobs EXCEPT ![j].process = "closed", ![j].exitCode = code,
                            ![j].job = OnClose(@, code)]
    /\ UNCHANGED <<env, batch, errLog, folder, cmdVars, jobVars>>

JobsNext ==
    \/ \E j \in JobIds : StartJob(j)
    \/ \E j \in JobIds :
          \E data \in TextsUpTo(JobAlphabet, MaxJobOut - Len(jobs[j].emitted)) :
              JobStdoutData(j, data)
    \/ \E j \in JobIds, code \in ExitCodes : JobClose(j, code)

SpecJobs == Init /\ [][JobsNext]_vars

\* C16: of two jobs running concurrently, each one's buffer, progress calls
\* and outcome are those of its own worker's output alone: what the other
\* worker writes reaches neither its progress callback nor its promise.
C16_JobsDoNotShareStreams ==
    \A j \in JobIds :
        /\ jobs[j].process = "running" =>
               jobs[j].job = OnStdoutData(NewJob, jobs[j].emitted)
        /\ jobs[j].process = "closed" =>
               jobs[j].job = OnClose(OnStdoutData(NewJob, jobs[j].emitted), jobs[j].exitCode)

\* Both jobs run, A's worker has sent a progress frame and holds a partial
\* line, and B's worker has sent a failure frame: only B is settled.
C16_Witness ==
    /\ jobs["A"].process = "running" /\ jobs["B"].process = "running"
    /\ jobs["A"].emitted = <<"P", NL, "P">>
    /\ jobs["B"].emitted = <<"F", NL>>
    /\ jobs["A"].job.promise.state = "pending"
    /\ jobs["B"].job.promise.state = "rejected"

\* --------------------------------------------------------- progress frames

\* The longest output of the worker in the progress model.
MaxProgressOut == 6

\* The characters the worker of the progress model writes.
ProgressAlphabet == {"P", "1", "2", NL}

DigitValue(c) == IF c = "1" THEN 1 ELSE 2

\* The number a percentage payload denotes.
RECURSIVE Number(_)
Number(text) ==
    IF text = <<>> THEN 0
    ELSE 10 * Number(SubSeq(text, 1, Len(text) - 1)) + DigitValue(text[Len(text)])

\* One convert command and its job, the worker writing progress frames.
ProgressNext ==
    \/ HandleConvertCommand(SourceFile, "md-to-docx", DefaultConfig)
    \/ \E data \in TextsUpTo(ProgressAlphabet, MaxProgressOut - Len(emitted)) : StdoutData(data)
    \/ \E code \in ExitCodes : Close(code)
    \/ ShowResult

SpecProgress == Init /\ [][ProgressNext]_vars

\* The progressCallback calls that carry a percentage.
PercentageCalls == SelectSeq(delivered, LAMBDA d : d.call = "progress" /\ d.text # <<>>)

\* C18: the percentages handed to the progress callback of one job never
\* decrease, whatever progress frames the worker writes.
C18_PercentagesNeverDecrease ==
    \A i, k \in 1..Len(PercentageCalls) :
        i < k => Number(PercentageCalls[i].text) <= Number(PercentageCalls[k].text)

\* ------------------------------------------------------- the job's outcome

\* The first result frame the stdout handler decoded.
FirstResult ==
    LET lines == CompleteLines(emitted)
        first == CHOOSE i \in 1..Len(lines) :
                     IsResultLine(lines[i]) /\ \A k \in 1..(i - 1) : ~IsResultLine(lines[k])
    IN  JsonParse(Base64Decode(lines[first]))

\* C19: the outcome the caller gets is the worker's result frame: fulfilled
\* with the frame's outputFiles when it says success, rejected with the
\* frame's error when it says failure, with the generic message only when
\* the frame has no error; and the notification shown is made from it.
C19_OutcomeIsTheResultFrame ==
    ResultDecoded =>
        /\ promise.state = (IF FirstResult.success THEN "fulfilled" ELSE "rejected")
        /\ FirstResult.success => promise.text = FirstResult.payload
        /\ (~FirstResult.success /\ FirstResult.payload # <<>>) =>
               (promise.kind = "worker" /\ promise.text = FirstResult.payload)
        /\ (~FirstResult.success /\ FirstResult.payload = <<>>) => promise.kind = "unknown"
        /\ (pc = "done" /\ (~FirstResult.success \/ FirstResult.payload # <<>>)) =>
               /\ Len(messages) = 1
               /\ messages[1].level = (IF FirstResult.success THEN "info" ELSE "error")
               /\ messages[1].text = FirstResult.payload

\* A success frame with an output file was decoded and its result shown.
C19_Witness ==
    /\ ResultDecoded
    /\ FirstResult.success
    /\ FirstResult.payload # <<>>
    /\ pc = "done"

\* The job ended in failure: a failure frame was decoded, the worker exited
\* with a non-zero code without a success having been reported, or the
\* worker could not be launched.
FailureTerminated ==
    \/ ResultDecoded /\ ~FirstResult.success
    \/ pyProcess = "closed" /\ exitCode # 0 /\ promise.state # "fulfilled"
    \/ pyProcess = "failed"

\* The Error the promise is rejected with has a non-empty message: every
\* template but the worker's own error text is a fixed non-empty text.
HasErrorMessage(p) ==
    /\ p.state = "rejected"
    /\ p.kind = "worker" => p.text # <<>>

\* C20: every way a job ends in failure gives the caller an error with a
\* non-empty message.
C20_EveryFailureHasMessage ==
    FailureTerminated => HasErrorMessage(promise)

\* ------------------------------------------------- the progress indicator

\* JavaScript values of the progress callback: a number, undefined, NaN, or
\* an object (the item {message, increment} given to progress.report).
Num(n) == [t |-> "number", n |-> n]
Undefined == [t |-> "undefined", n |-> 0]
NaN == [t |-> "NaN", n |-> 0]
ReportedItem == [t |-> "object", n |-> 0]

\* a - b: a number only when both operands are numbers; undefined and an
\* object convert to NaN.
Minus(a, b) == IF a.t = "number" /\ b.t = "number" THEN Num(a.n - b.n) ELSE NaN

\* a || b: b when a is falsy (undefined, NaN, 0).
OrElse(a, b) == IF a.t \in {"undefined", "NaN"} \/ (a.t = "number" /\ a.n = 0) THEN b ELSE a

\* The percentage argument of a progressCallback call.
Percentage(call) == IF call.text = <<>> THEN Undefined ELSE Num(Number(call.text))

\* (progress as any).value after the given reports: the Progress interface
\* declares report only, and the object the host passes holds the item last
\* reported, if any: never a number.
ProgressValue(reports) == IF reports = <<>> THEN Undefined ELSE ReportedItem

\* increment: percentage !== undefined ? percentage - progress.value || 0
\*                                      : undefined
Increment(percentage, value) ==
    IF percentage.t # "undefined" THEN OrElse(Minus(percentage, value), Num(0))
    ELSE Undefined

\* The increments given to progress.report, one for each progressCallback
\* call.
RECURSIVE Reports(_)
Reports(calls) ==
    IF calls = <<>> THEN <<>>
    ELSE LET before == Reports(SubSeq(calls, 1, Len(calls) - 1))
         IN  Append(before, Increment(Percentage(calls[Len(calls)]), ProgressValue(before)))

\* The progressCallback calls made so far.
ProgressCalls == SelectSeq(delivered, LAMBDA d : d.call = "progress")

\* The sum of the increments that are numbers.
RECURSIVE SumIncrements(_)
SumIncrements(reports) ==
    IF reports = <<>> THEN 0
    ELSE SumIncrements(Tail(reports)) + (IF Head(reports).t = "number" THEN Head(reports).n ELSE 0)

\* C27: for every progress frame with a percentage the increment reported
\* to the progress indicator is the percentage minus what was reported
\* before it, so that the increments sum to the latest percentage.
C27_IncrementsSumToPercentage ==
    LET reports == Reports(ProgressCalls)
    IN  \A i \in 1..Len(ProgressCalls) :
            ProgressCalls[i].text # <<>> =>
                reports[i] = Num(Number(ProgressCalls[i].text)
                                 - SumIncrements(SubSeq(reports, 1, i - 1)))

\* ------------------------------------------------------------ folder runs

\* The most files a folder run converts.
MaxFolderJobs == 5

SourceFolder == <<"/", "w">>

\* The outcome of the job for the i-th file enumerated: its own output file
\* on success, an error text on failure.
JobResult(i, failed) ==
    IF failed THEN [success |-> FALSE, outputFiles |-> <<>>, error |-> <<"1">>]
    ELSE [success |-> TRUE, outputFiles |-> <<ToString(i)>>, error |-> <<>>]

\* The outcomes of a run over n files of which those in failedJobs fail.
JobResults(n, failedJobs) == [i \in 1..n |-> JobResult(i, i \in failedJobs)]

\* The output files of the succeeded jobs, in enumeration order.
RECURSIVE SucceededFiles(_)
SucceededFiles(jobResults) ==
    IF jobResults = <<>> THEN <<>>
    ELSE (IF Head(jobResults).success THEN Head(jobResults).outputFiles ELSE <<>>)
             \o SucceededFiles(Tail(jobResults))

FailedJobs(jobResults) == {i \in 1..Len(jobResults) : ~jobResults[i].success}

\* The worker's aggregation, fail-soft: success if any job succeeded, the
\* succeeded jobs' files in order, the number of failed jobs, and the first
\* failing job's error.
Fold(jobResults) ==
    [success |-> \E i \in 1..Len(jobResults) : jobResults[i].success,
     outputFiles |-> SucceededFiles(jobResults),
     failed |-> Cardinality(FailedJobs(jobResults)),
     error |-> IF FailedJobs(jobResults) = {} THEN <<>>
               ELSE jobResults[CHOOSE i \in FailedJobs(jobResults) :
                                  \A k \in FailedJobs(jobResults) : i <= k].error]

\* The result frame of an aggregate as JSON.parse yields it: ResultInfo has
\* the fields success, outputFiles and error.
ResultInfo(aggregate) ==
    [ok |-> TRUE, type |-> "result", success |-> aggregate.success,
     payload |-> IF aggregate.success THEN aggregate.outputFiles ELSE aggregate.error]

\* The worker has run one job for each file of the folder and writes the
\* aggregate's result frame; the stdout handler decodes it.
FolderResult(jobResults) ==
    /\ pyProcess = "running"
    /\ folder = <<>>
    /\ jobResults # <<>>
    /\ folder' = jobResults
    /\ SetJob(ProcessOutput(Job, ResultInfo(Fold(jobResults))))
    /\ UNCHANGED <<pyProcess, exitCode, emitted, cut, cmdVars, env, batch, jobs, errLog>>

\* One office-to-md command on a folder and its job.
FolderNext ==
    \/ HandleConvertCommand(SourceFolder, "office-to-md", DefaultConfig)
    \/ \E n \in 1..MaxFolderJobs, failedJobs \in SUBSET (1..MaxFolderJobs) :
          failedJobs \subseteq 1..n /\ FolderResult(JobResults(n, failedJobs))
    \/ \E code \in ExitCodes : Close(code)
    \/ ShowResult

SpecFolder == Init /\ [][FolderNext]_vars

\* A folder run with at least one succeeded and one failed job was shown.
PartialFailureShown ==
    /\ pc = "done"
    /\ Fold(folder).success
    /\ Fold(folder).failed > 0

\* C21: a folder run in which some jobs fail and at least one succeeds is
\* reported as a success with exactly the succeeded jobs' files in
\* enumeration order, and the notification tells how many jobs failed.
C21_PartialFailureIsReported ==
    PartialFailureShown =>
        /\ promise.state = "fulfilled"
        /\ promise.text = SucceededFiles(folder)
        /\ Len(messages) = 1
        /\ messages[1].kind = "succeeded-of-total"
        /\ messages[1].code = Fold(folder).failed

\* ------------------------------------------------------------------ stderr

\* The longest output of the worker, stdout and stderr each, in the stderr
\* model.
MaxErr == 3

\* The characters the worker of the stderr model writes.
ErrAlphabet == {"P", "S", NL}

\* A stderr handler that feeds the text to the frame decoder.
OnStderrData_Decoded(job, data) == OnStdoutData(job, data)

\* pyProcess.stderr.on('data'): the text is given to console.error and
\* nothing of the job is touched.
OnStderrData(job, data) == job

\* The worker writes `data` to its standard error.
StderrData(data) ==
    /\ pyProcess = "running"
    /\ data # <<>>
    /\ errLog' = errLog \o data
    /\ SetJob(OnStderrData(Job, data))
    /\ UNCHANGED <<pyProcess, exitCode, emitted, cut, cmdVars, env, batch, jobs, folder>>

\* One convert command and its job, the worker writing to both streams.
StderrNext ==
    \/ HandleConvertCommand(SourceFile, "md-to-docx", DefaultConfig)
    \/ \E data \in TextsUpTo(ErrAlphabet, MaxErr - Len(emitted)) : StdoutData(data)
    \/ \E data \in TextsUpTo(ErrAlphabet, MaxErr - Len(errLog)) : StderrData(data)
    \/ \E code \in ExitCodes : Close(code)
    \/ ShowResult

SpecStderr == Init /\ [][StderrNext]_vars

\* C22: what the worker writes to stderr is never decoded: the buffer, the
\* progress and settle calls and the promise are those of the stdout
\* output and the exit alone.
C22_StderrIsOnlyLogged ==
    /\ pyProcess = "running" => Job = OnStdoutData(NewJob, emitted)
    /\ pyProcess = "closed" => Job = OnClose(OnStdoutData(NewJob, emitted), exitCode)

\* The worker wrote a complete success frame to stderr and nothing to
\* stdout: it is logged, and the job is as it was at the spawn.
C22_Witness ==
    /\ pyProcess = "running"
    /\ errLog = <<"S", NL>>
    /\ emitted = <<>>
    /\ promise.state = "pending"
    /\ delivered = <<>>

\* C23: once the worker has closed the promise is settled, whatever the
\* exit code and whatever was left in the buffer: no handler runs after
\* 'close', so a promise pending then is pending for ever.
C23_ClosedJobIsSettled ==
    pyProcess = "closed" => promise.state \in {"fulfilled", "rejected"}

\* C24: when no batch command is between its set and its restore, the
\* variable BATCH_FILTER_TYPE is as it was before the first command: unset.
C24_FilterRestoredAfterBatches ==
    (\A c \in Commands : batch[c].pc # "finally") => env = "unset"

\* The resolve and reject calls made so far.
SettleCalls == SelectSeq(delivered, LAMBDA d : d.call # "progress")

\* C25: a settled promise never changes: the first resolve or reject
\* decides what the caller receives, and a later result frame, 'close' or
\* 'error' does not alter it.
C25_OutcomeSettledOnce ==
    [][promise.state # "pending" => promise' = promise]_vars

\* resolve or reject was called a second time, with another outcome, and
\* the promise is as the first call left it.
C25_Witness ==
    /\ Len(SettleCalls) >= 2
    /\ SettleCalls[2] # SettleCalls[1]
    /\ promise.state = SettleCalls[1].call
    /\ promise.text = SettleCalls[1].text

\* C26: a command whose job is settled and handled has shown exactly one
\* notification: an information message when the job succeeded (also with
\* no output files), an error message when it failed.
C26_OneNotificationPerJob ==
    (pc = "done" /\ request.resourceUri # NoUri) =>
        /\ Len(messages) = 1
        /\ messages[1].level = (IF promise.state = "fulfilled" THEN "info" ELSE "error")

\* C28: a convert or batch command given no resource only shows an error
\* message: the step that refuses it leaves the file system, the spawned
\* workers and BATCH_FILTER_TYPE as they were.
C28_NoResourceOnlyShowsError ==
    [][(\E c \in Commands : batch[c].pc = "idle" /\ batch'[c].pc = "refused") =>
          /\ fs' = fs
          /\ spawned' = spawned
          /\ env' = env
          /\ Len(messages') = Len(messages) + 1
          /\ messages'[Len(messages')].level = "error"]_vars

\* A batch command and a plain convert command were both refused.
C28_Witness ==
    /\ batch[1].pc = "refused" /\ batch[1].filter # "unset"
    /\ batch[2].pc = "refused" /\ batch[2].filter = "unset"
    /\ Len(messages) = 2

=============================================================================
